---- MODULE Spec2Model ----
(***************************************************************************)
(* Model of the glyph-forge client: ForgeClient (core/client/              *)
(* forge_client.py) exchanging requests with the remote service and        *)
(* persisting artifacts through a workspace.                               *)
(*                                                                         *)
(* Python values are tagged records; JSON text is a sequence of tokens,    *)
(* so that serialising (json.dumps) and parsing (json.loads /              *)
(* response.json()) are computed and not assumed.                          *)
(***************************************************************************)
EXTENDS Integers, Sequences, FiniteSets, TLC

(***************************************************************************)
(* Python values                                                           *)
(***************************************************************************)
PyNone == [t |-> "none"]
PyBool(b) == [t |-> "bool", b |-> b]
PyInt(n) == [t |-> "int", n |-> n]
PyStr(s) == [t |-> "str", s |-> s]
PyList(items) == [t |-> "list", items |-> items]
PyTuple(items) == [t |-> "tuple", items |-> items]
\* a dict is the sequence of its items in insertion order
PyDict(items) == [t |-> "dict", items |-> items]
PySet(items) == [t |-> "set", items |-> items]
Item(k, v) == [k |-> k, v |-> v]

DictKeys(d) == {d.items[j].k : j \in 1..Len(d.items)}

DictGet(d, key) ==
    IF key \in DictKeys(d)
    THEN d.items[CHOOSE j \in 1..Len(d.items) : d.items[j].k = key].v
    ELSE PyNone

\* d[key] = v : an existing key keeps its position, a new key goes last
DictSet(d, key, v) ==
    IF key \in DictKeys(d)
    THEN PyDict([j \in 1..Len(d.items) |->
                    IF d.items[j].k = key THEN Item(key, v) ELSE d.items[j]])
    ELSE PyDict(Append(d.items, Item(key, v)))

\* bool(v)
Truthy(v) ==
    CASE v.t = "none" -> FALSE
      [] v.t = "bool" -> v.b
      [] v.t = "int" -> v.n # 0
      [] v.t = "str" -> v.s # ""
      [] OTHER -> Len(v.items) > 0

RECURSIVE PyEq(_, _)
\* a == b : dicts compare without regard to insertion order
PyEq(a, b) ==
    IF a.t # b.t THEN FALSE
    ELSE CASE a.t = "dict" ->
                /\ DictKeys(a) = DictKeys(b)
                /\ \A key \in DictKeys(a) : PyEq(DictGet(a, key), DictGet(b, key))
           [] a.t \in {"list", "tuple"} ->
                /\ Len(a.items) = Len(b.items)
                /\ \A j \in 1..Len(a.items) : PyEq(a.items[j], b.items[j])
           [] OTHER -> a = b

(***************************************************************************)
(* JSON text                                                               *)
(***************************************************************************)
Tok(k, s, n) == [k |-> k, s |-> s, n |-> n]
LBrace == Tok("p", "{", 0)
RBrace == Tok("p", "}", 0)
LBrack == Tok("p", "[", 0)
RBrack == Tok("p", "]", 0)
Comma == Tok("p", ",", 0)
Colon == Tok("p", ":", 0)
TStr(s) == Tok("str", s, 0)
TNum(n) == Tok("num", "", n)
TLit(s) == Tok("lit", s, 0)
\* a word that is no JSON token
TWord(s) == Tok("word", s, 0)

RECURSIVE Serializable(_)
\* json.dumps raises TypeError on a value that has no JSON form
Serializable(v) ==
    CASE v.t = "set" -> FALSE
      [] v.t \in {"list", "tuple"} ->
            \A j \in 1..Len(v.items) : Serializable(v.items[j])
      [] v.t = "dict" ->
            \A j \in 1..Len(v.items) : Serializable(v.items[j].v)
      [] OTHER -> TRUE

RECURSIVE Dumps(_)
RECURSIVE DumpElems(_, _)
RECURSIVE DumpMembers(_, _)
\* json.dumps(v): a tuple is written as an array
Dumps(v) ==
    CASE v.t = "none" -> <<TLit("null")>>
      [] v.t = "bool" -> <<TLit(IF v.b THEN "true" ELSE "false")>>
      [] v.t = "int" -> <<TNum(v.n)>>
      [] v.t = "str" -> <<TStr(v.s)>>
      [] v.t \in {"list", "tuple"} -> <<LBrack>> \o DumpElems(v.items, 1) \o <<RBrack>>
      [] v.t = "dict" -> <<LBrace>> \o DumpMembers(v.items, 1) \o <<RBrace>>

DumpElems(items, j) ==
    IF j > Len(items) THEN <<>>
    ELSE (IF j > 1 THEN <<Comma>> ELSE <<>>) \o Dumps(items[j]) \o DumpElems(items, j + 1)

DumpMembers(items, j) ==
    IF j > Len(items) THEN <<>>
    ELSE (IF j > 1 THEN <<Comma>> ELSE <<>>)
            \o <<TStr(items[j].k), Colon>> \o Dumps(items[j].v)
            \o DumpMembers(items, j + 1)

ParseFail == [ok |-> FALSE, v |-> PyNone, i |-> 0]
ParseOk(v, i) == [ok |-> TRUE, v |-> v, i |-> i]

RECURSIVE ParseValue(_, _)
RECURSIVE ParseElems(_, _, _)
RECURSIVE ParseMembers(_, _, _)
\* the JSON decoder: the value that starts at token i, and where it ends
ParseValue(text, i) ==
    IF i > Len(text) THEN ParseFail
    ELSE LET tk == text[i] IN
         CASE tk.k = "lit" ->
                ParseOk(CASE tk.s = "null" -> PyNone
                          [] tk.s = "true" -> PyBool(TRUE)
                          [] OTHER -> PyBool(FALSE), i + 1)
           [] tk.k = "num" -> ParseOk(PyInt(tk.n), i + 1)
           [] tk.k = "str" -> ParseOk(PyStr(tk.s), i + 1)
           [] tk = LBrack ->
                IF i + 1 <= Len(text) /\ text[i + 1] = RBrack
                THEN ParseOk(PyList(<<>>), i + 2)
                ELSE ParseElems(text, i + 1, <<>>)
           [] tk = LBrace ->
                IF i + 1 <= Len(text) /\ text[i + 1] = RBrace
                THEN ParseOk(PyDict(<<>>), i + 2)
                ELSE ParseMembers(text, i + 1, PyDict(<<>>))
           [] OTHER -> ParseFail

ParseElems(text, i, acc) ==
    LET r == ParseValue(text, i) IN
    IF ~r.ok \/ r.i > Len(text) THEN ParseFail
    ELSE IF text[r.i] = Comma THEN ParseElems(text, r.i + 1, Append(acc, r.v))
    ELSE IF text[r.i] = RBrack THEN ParseOk(PyList(Append(acc, r.v)), r.i + 1)
    ELSE ParseFail

ParseMembers(text, i, acc) ==
    IF i + 1 > Len(text) \/ text[i].k # "str" \/ text[i + 1] # Colon THEN ParseFail
    ELSE LET r == ParseValue(text, i + 2) IN
         IF ~r.ok \/ r.i > Len(text) THEN ParseFail
         ELSE IF text[r.i] = Comma
              THEN ParseMembers(text, r.i + 1, DictSet(acc, text[i].s, r.v))
         ELSE IF text[r.i] = RBrace
              THEN ParseOk(DictSet(acc, text[i].s, r.v), r.i + 1)
         ELSE ParseFail

\* json.loads(text): ok = FALSE stands for json.JSONDecodeError
Loads(text) ==
    LET r == ParseValue(text, 1) IN
    IF r.ok /\ r.i = Len(text) + 1 THEN [ok |-> TRUE, v |-> r.v]
    ELSE [ok |-> FALSE, v |-> PyNone]

(***************************************************************************)
(* Exceptions and call outcomes                                            *)
(***************************************************************************)
NoText == <<>>

\* a call either returns v or raises an exception of class cls
Return(v) ==
    [out |-> "return", v |-> v, cls |-> "", msg |-> "", endpoint |-> "",
     status_code |-> 0, response_body |-> NoText, original_error |-> ""]

Raise(cls, msg, endpoint, status_code, response_body, original_error) ==
    [out |-> "raise", v |-> PyNone, cls |-> cls, msg |-> msg, endpoint |-> endpoint,
     status_code |-> status_code, response_body |-> response_body,
     original_error |-> original_error]

ForgeClientError(msg, endpoint) ==
    Raise("ForgeClientError", msg, endpoint, 0, NoText, "")
ForgeClientIOError(msg, endpoint, original_error) ==
    Raise("ForgeClientIOError", msg, endpoint, 0, NoText, original_error)
ForgeClientHTTPError(msg, status_code, response_body, endpoint) ==
    Raise("ForgeClientHTTPError", msg, endpoint, status_code, response_body, "")

\* the bases of each exception class that the handlers of the client test
Bases(cls) ==
    CASE cls = "ForgeClientError" -> {"ForgeClientError", "Exception"}
      [] cls = "ForgeClientIOError" -> {"ForgeClientIOError", "ForgeClientError", "Exception"}
      [] cls = "ForgeClientHTTPError" -> {"ForgeClientHTTPError", "ForgeClientError", "Exception"}
      [] cls \in {"ConnectTimeout", "ReadTimeout"} ->
            {cls, "TimeoutException", "TransportError", "RequestError", "HTTPError", "Exception"}
      [] cls \in {"ConnectError", "ReadError"} ->
            {cls, "NetworkError", "TransportError", "RequestError", "HTTPError", "Exception"}
      [] cls \in {"RemoteProtocolError", "TooManyRedirects"} ->
            {cls, "RequestError", "HTTPError", "Exception"}
      [] cls \in {"FileNotFoundError", "PermissionError"} -> {cls, "OSError", "Exception"}
      [] cls = "HTTPStatusError" -> {cls, "HTTPError", "Exception"}
      [] OTHER -> {cls, "Exception"}

IsInstance(cls, base) == base \in Bases(cls)

(***************************************************************************)
(* The transport: what httpx.Client.request does with one request          *)
(***************************************************************************)
Response(status_code, text) ==
    [kind |-> "response", status_code |-> status_code, text |-> text, exc |-> ""]
TransportRaises(exc) ==
    [kind |-> "raise", status_code |-> 0, text |-> NoText, exc |-> exc]

\* ExceptClauses without the handlers for NetworkError and HTTPError
ExceptClauses_TimeoutOnly(cls, endpoint, propagated) ==
    IF IsInstance(cls, "TimeoutException")
    THEN ForgeClientIOError("Request timeout", endpoint, cls)
    ELSE propagated

\* the except clauses of _make_request, applied to an exception of class cls
\* raised inside its try block; propagated is the outcome when none matches
ExceptClauses(cls, endpoint, propagated) ==
    IF IsInstance(cls, "TimeoutException")
    THEN ForgeClientIOError("Request timeout", endpoint, cls)
    ELSE IF IsInstance(cls, "NetworkError")
    THEN ForgeClientIOError("Network error", endpoint, cls)
    ELSE IF IsInstance(cls, "HTTPError")
    THEN ForgeClientIOError("HTTP client error", endpoint, cls)
    ELSE propagated

\* whether _make_request reaches self._client.request: json.dumps(json_data),
\* made for the payload summary before the try block, may raise TypeError
RequestIssued(json_data) == ~(Truthy(json_data) /\ ~Serializable(json_data))

\* _make_request with the status test written 200 <= status_code <= 300
MakeRequest_StatusUpTo300(endpoint, json_data, net) ==
    IF ~RequestIssued(json_data)
    THEN Raise("TypeError", "not JSON serializable", "", 0, NoText, "")
    ELSE IF net.kind = "raise"
    THEN ExceptClauses(net.exc, endpoint, Raise(net.exc, "", "", 0, NoText, ""))
    ELSE IF ~(200 <= net.status_code /\ net.status_code <= 300)
    THEN ExceptClauses("ForgeClientHTTPError", endpoint,
            ForgeClientHTTPError("HTTP status", net.status_code, net.text, endpoint))
    ELSE LET parsed == Loads(net.text) IN
         IF parsed.ok THEN Return(parsed.v)
         ELSE ExceptClauses("ForgeClientError", endpoint,
                ForgeClientError("Invalid JSON response", endpoint))

\* _make_request without the inner try around response.json()
MakeRequest_NoJsonCatch(endpoint, json_data, net) ==
    IF ~RequestIssued(json_data)
    THEN Raise("TypeError", "not JSON serializable", "", 0, NoText, "")
    ELSE IF net.kind = "raise"
    THEN ExceptClauses(net.exc, endpoint, Raise(net.exc, "", "", 0, NoText, ""))
    ELSE IF ~(200 <= net.status_code /\ net.status_code < 300)
    THEN ExceptClauses("ForgeClientHTTPError", endpoint,
            ForgeClientHTTPError("HTTP status", net.status_code, net.text, endpoint))
    ELSE LET parsed == Loads(net.text) IN
         IF parsed.ok THEN Return(parsed.v)
         ELSE ExceptClauses("JSONDecodeError", endpoint,
                Raise("JSONDecodeError", "", "", 0, NoText, ""))

\* _make_request parsing the body before it looks at the status
MakeRequest_ParsesBeforeStatus(endpoint, json_data, net) ==
    IF ~RequestIssued(json_data)
    THEN Raise("TypeError", "not JSON serializable", "", 0, NoText, "")
    ELSE IF net.kind = "raise"
    THEN ExceptClauses(net.exc, endpoint, Raise(net.exc, "", "", 0, NoText, ""))
    ELSE LET parsed == Loads(net.text) IN
         IF ~parsed.ok
         THEN ExceptClauses("ForgeClientError", endpoint,
                ForgeClientError("Invalid JSON response", endpoint))
         ELSE IF ~(200 <= net.status_code /\ net.status_code < 300)
         THEN ExceptClauses("ForgeClientHTTPError", endpoint,
                ForgeClientHTTPError("HTTP status", net.status_code, net.text, endpoint))
         ELSE Return(parsed.v)

\* ForgeClient._make_request; json_data = PyNone stands for json_data=None
MakeRequest(endpoint, json_data, net) ==
    IF ~RequestIssued(json_data)
    THEN Raise("TypeError", "not JSON serializable", "", 0, NoText, "")
    ELSE IF net.kind = "raise"
    THEN ExceptClauses(net.exc, endpoint, Raise(net.exc, "", "", 0, NoText, ""))
    ELSE IF ~(200 <= net.status_code /\ net.status_code < 300)
    THEN ExceptClauses("ForgeClientHTTPError", endpoint,
            ForgeClientHTTPError("HTTP status", net.status_code, net.text, endpoint))
    ELSE LET parsed == Loads(net.text) IN
         IF parsed.ok THEN Return(parsed.v)
         ELSE \* json.JSONDecodeError is caught by the inner try
              ExceptClauses("ForgeClientError", endpoint,
                ForgeClientError("Invalid JSON response", endpoint))

(***************************************************************************)
(* The workspace: keyed JSON files under named directories                 *)
(***************************************************************************)
DirNames == {"output_configs", "output_docx", "input_docx", "input_unzipped"}

Path(dir, key) == <<dir, key>>

WriteFile(fs, path, text) ==
    [q \in (DOMAIN fs) \cup {path} |-> IF q = path THEN text ELSE fs[q]]

\* save_json that writes every artifact of a directory to the same file
SaveJson_IgnoresKey(fs, dir, key, value, disk_ok) ==
    IF dir \notin DirNames THEN [ok |-> FALSE, exc |-> "KeyError", files |-> fs]
    ELSE IF ~Serializable(value) THEN [ok |-> FALSE, exc |-> "TypeError", files |-> fs]
    ELSE IF ~disk_ok THEN [ok |-> FALSE, exc |-> "PermissionError", files |-> fs]
    ELSE [ok |-> TRUE, exc |-> "", files |-> WriteFile(fs, Path(dir, "k1"), Dumps(value))]

\* save_json(dir, key, value): disk_ok = FALSE stands for a write the
\* filesystem refuses (OSError)
SaveJson(fs, dir, key, value, disk_ok) ==
    IF dir \notin DirNames THEN [ok |-> FALSE, exc |-> "KeyError", files |-> fs]
    ELSE IF ~Serializable(value) THEN [ok |-> FALSE, exc |-> "TypeError", files |-> fs]
    ELSE IF ~disk_ok THEN [ok |-> FALSE, exc |-> "PermissionError", files |-> fs]
    ELSE [ok |-> TRUE, exc |-> "", files |-> WriteFile(fs, Path(dir, key), Dumps(value))]

\* load_json(dir, key)
LoadJson(fs, dir, key) ==
    IF dir \notin DirNames THEN Raise("KeyError", "", "", 0, NoText, "")
    ELSE IF Path(dir, key) \notin DOMAIN fs
    THEN Raise("FileNotFoundError", "", "", 0, NoText, "")
    ELSE LET parsed == Loads(fs[Path(dir, key)]) IN
         IF parsed.ok THEN Return(parsed.v)
         ELSE Raise("JSONDecodeError", "", "", 0, NoText, "")

(***************************************************************************)
(* The client operations.  Each yields the effect of one whole call:       *)
(* its outcome, the workspace files after it and what it did on the way.   *)
(***************************************************************************)
\* the arguments of a _make_request call, recorded by compress_schema
NoRequest == [method |-> "", endpoint |-> "", json_data |-> PyNone]
Request(method, endpoint, json_data) ==
    [method |-> method, endpoint |-> endpoint, json_data |-> json_data]

Effect(outcome, fs, wrote, value, save_attempted, issued) ==
    [outcome |-> outcome, files |-> fs, wrote |-> wrote, value |-> value,
     save_attempted |-> save_attempted, save_failed |-> save_attempted /\ wrote = {},
     issued |-> issued, opened |-> 0, closed |-> 0, request |-> NoRequest,
     closed_keys |-> {}]

\* a request sent once more after the first attempt
Issued_SentTwice(json_data) == IF RequestIssued(json_data) THEN 2 ELSE 0

\* the requests a call hands to the transport: _make_request calls
\* self._client.request once, outside any loop
Issued(json_data) == IF RequestIssued(json_data) THEN 1 ELSE 0

\* response.get(name) on the value response.json() returned
ResponseGet(response, name) ==
    IF response.t = "dict" THEN Return(DictGet(response, name))
    ELSE Raise("AttributeError", "no attribute 'get'", "", 0, NoText, "")

\* the save block with a failed save logged and not raised
SaveIfRequested_SwallowsFailure(fs, save_as, result, endpoint, issued, disk_ok) ==
    IF Truthy(save_as)
    THEN LET s == SaveJson(fs, "output_configs", save_as.s, result, disk_ok) IN
         IF s.ok
         THEN Effect(Return(result), s.files, {Path("output_configs", save_as.s)},
                     result, TRUE, issued)
         ELSE Effect(Return(result), fs, {}, PyNone, TRUE, issued)
    ELSE Effect(Return(result), fs, {}, PyNone, FALSE, issued)

\* the save block saving the name it was given in place of the result
SaveIfRequested_SavesName(fs, save_as, result, endpoint, issued, disk_ok) ==
    IF Truthy(save_as)
    THEN LET s == SaveJson(fs, "output_configs", save_as.s, save_as, disk_ok) IN
         IF s.ok
         THEN Effect(Return(result), s.files, {Path("output_configs", save_as.s)},
                     save_as, TRUE, issued)
         ELSE Effect(ForgeClientError("Failed to save to workspace", endpoint),
                     fs, {}, PyNone, TRUE, issued)
    ELSE Effect(Return(result), fs, {}, PyNone, FALSE, issued)

\* the save block saving under a key of its own when save_as is not given
SaveIfRequested_AlwaysSaves(fs, save_as, result, endpoint, issued, disk_ok) ==
    LET key == IF Truthy(save_as) THEN save_as.s ELSE "result"
        s == SaveJson(fs, "output_configs", key, result, disk_ok)
    IN  IF s.ok
        THEN Effect(Return(result), s.files, {Path("output_configs", key)},
                    result, TRUE, issued)
        ELSE Effect(ForgeClientError("Failed to save to workspace", endpoint),
                    fs, {}, PyNone, TRUE, issued)

\* the "save to workspace if requested" block shared by build_schema_from_docx
\* and the two intake operations
SaveIfRequested(fs, save_as, result, endpoint, issued, disk_ok) ==
    IF Truthy(save_as)
    THEN LET s == SaveJson(fs, "output_configs", save_as.s, result, disk_ok) IN
         IF s.ok
         THEN Effect(Return(result), s.files, {Path("output_configs", save_as.s)},
                     result, TRUE, issued)
         ELSE Effect(ForgeClientError("Failed to save to workspace", endpoint),
                     fs, {}, PyNone, TRUE, issued)
    ELSE Effect(Return(result), fs, {}, PyNone, FALSE, issued)

BuildPayload(docx_path) == PyDict(<<Item("docx_path", PyStr(docx_path))>>)

\* build_schema_from_docx rejecting a schema only when it is None
BuildSchemaFromDocx_NoneCheckOnly(fs, docx_path, save_as, net, disk_ok) ==
    LET json_data == BuildPayload(docx_path)
        r == MakeRequest("/schema/build", json_data, net)
        n == Issued(json_data)
    IN  IF r.out = "raise" THEN Effect(r, fs, {}, PyNone, FALSE, n)
        ELSE LET got == ResponseGet(r.v, "schema") IN
             IF got.out = "raise" THEN Effect(got, fs, {}, PyNone, FALSE, n)
             ELSE IF got.v = PyNone
             THEN Effect(ForgeClientError("Missing 'schema' in API response", "/schema/build"),
                         fs, {}, PyNone, FALSE, n)
             ELSE SaveIfRequested(fs, save_as, got.v, "/schema/build", n, disk_ok)

\* build_schema_from_docx saving the response before it validates it
BuildSchemaFromDocx_SavesBeforeValidation(fs, docx_path, save_as, net, disk_ok) ==
    LET json_data == BuildPayload(docx_path)
        r == MakeRequest("/schema/build", json_data, net)
        n == Issued(json_data)
    IN  IF r.out = "raise" THEN Effect(r, fs, {}, PyNone, FALSE, n)
        ELSE LET got == ResponseGet(r.v, "schema")
                 e == SaveIfRequested(fs, save_as, r.v, "/schema/build", n, disk_ok)
             IN
             IF got.out = "raise" THEN Effect(got, fs, {}, PyNone, FALSE, n)
             ELSE IF e.outcome.out = "raise" THEN e
             ELSE IF ~Truthy(got.v)
             THEN [e EXCEPT !.outcome =
                        ForgeClientError("Missing 'schema' in API response", "/schema/build")]
             ELSE [e EXCEPT !.outcome = Return(got.v)]

\* ForgeClient.build_schema_from_docx
BuildSchemaFromDocx(fs, docx_path, save_as, net, disk_ok) ==
    LET json_data == BuildPayload(docx_path)
        r == MakeRequest("/schema/build", json_data, net)
        n == Issued(json_data)
    IN  IF r.out = "raise" THEN Effect(r, fs, {}, PyNone, FALSE, n)
        ELSE LET got == ResponseGet(r.v, "schema") IN
             IF got.out = "raise" THEN Effect(got, fs, {}, PyNone, FALSE, n)
             ELSE IF ~Truthy(got.v)
             THEN Effect(ForgeClientError("Missing 'schema' in API response", "/schema/build"),
                         fs, {}, PyNone, FALSE, n)
             ELSE SaveIfRequested(fs, save_as, got.v, "/schema/build", n, disk_ok)

\* the order of the keys under sort_keys=True
KeyOrder == <<"a", "b", "s", "v">>
KeyRank(k) == CHOOSE j \in 1..Len(KeyOrder) : KeyOrder[j] = k

SortItems(items) ==
    LET pos(j) == 1 + Cardinality({h \in 1..Len(items) :
                                     KeyRank(items[h].k) < KeyRank(items[j].k)})
    IN  [i \in 1..Len(items) |-> items[CHOOSE j \in 1..Len(items) : pos(j) = i]]

RECURSIVE SortKeys(_)
SortKeys(v) ==
    CASE v.t = "dict" ->
            LET sorted == SortItems(v.items) IN
            PyDict([i \in 1..Len(sorted) |-> Item(sorted[i].k, SortKeys(sorted[i].v))])
      [] v.t \in {"list", "tuple"} ->
            [t |-> v.t, items |-> [i \in 1..Len(v.items) |-> SortKeys(v.items[i])]]
      [] OTHER -> v

HexDigits == <<"0", "1", "2", "3", "4", "5", "6", "7",
               "8", "9", "a", "b", "c", "d", "e", "f">>

\* a number for one token of a text
TokCode(tok) ==
    (IF tok.s \in {KeyOrder[j] : j \in 1..Len(KeyOrder)} THEN 97 + KeyRank(tok.s)
     ELSE 7 * Len(tok.s))
        + tok.n + (IF tok.k = "str" THEN 34 ELSE 0)

RECURSIVE TextCode(_, _)
\* a number for a text, sensitive to the order of its tokens
TextCode(text, h) ==
    IF text = <<>> THEN h
    ELSE TextCode(Tail(text), (h * 31 + TokCode(Head(text))) % 65521)

\* hashlib.sha256(text).hexdigest(): 64 hexadecimal digits that depend on
\* the text alone; a stand-in for the digest, deterministic like it
Sha256HexDigest(text) ==
    LET c == TextCode(text, 17) IN
    [i \in 1..64 |-> HexDigits[(((c \div (1 + (i % 7))) + i * (c % 251)) % 16) + 1]]

RECURSIVE JoinChars(_)
\* the string made of the characters of a sequence
JoinChars(chars) ==
    IF chars = <<>> THEN "" ELSE Head(chars) \o JoinChars(Tail(chars))

\* digest[:16]
Take16(digest) == SubSeq(digest, 1, IF Len(digest) < 16 THEN Len(digest) ELSE 16)

\* hashlib.sha256(text).hexdigest()[:16]
Sha256Hex16(text) == JoinChars(Take16(Sha256HexDigest(text)))

\* the digest of the schema dumped in the order its keys were inserted
SchemaHash_InsertionOrder(schema) == Sha256Hex16(Dumps(schema))

\* json.dumps(schema, sort_keys=True) and its digest
SchemaHash(schema) == Sha256Hex16(Dumps(SortKeys(schema)))

\* datetime.now().isoformat() at clock reading now
IsoFormat(now) == "T" \o ToString(now)

RunPayload(schema, plaintext) ==
    PyDict(<<Item("schema", schema), Item("plaintext", PyStr(plaintext))>>)

\* the manifest without its schema_hash entry
Manifest_NoHash(schema, plaintext, dest_name, docx_url, status, now) ==
    PyDict(<<Item("timestamp", PyStr(IsoFormat(now))),
             Item("docx_url", docx_url),
             Item("dest_name", PyStr(dest_name)),
             Item("plaintext_length", PyInt(Len(plaintext))),
             Item("status", status)>>)

\* the manifest recording the default destination name in place of the argument
Manifest_DefaultDestName(schema, plaintext, dest_name, docx_url, status, now) ==
    PyDict(<<Item("timestamp", PyStr(IsoFormat(now))),
             Item("schema_hash", PyStr(SchemaHash(schema))),
             Item("docx_url", docx_url),
             Item("dest_name", PyStr("assembled_output.docx")),
             Item("plaintext_length", PyInt(Len(plaintext))),
             Item("status", status)>>)

\* the manifest record of run_schema
Manifest(schema, plaintext, dest_name, docx_url, status, now) ==
    PyDict(<<Item("timestamp", PyStr(IsoFormat(now))),
             Item("schema_hash", PyStr(SchemaHash(schema))),
             Item("docx_url", docx_url),
             Item("dest_name", PyStr(dest_name)),
             Item("plaintext_length", PyInt(Len(plaintext))),
             Item("status", status)>>)

\* run_schema with a failed save of the manifest raised to the caller
SaveRunManifest_Propagates(fs, manifest, docx_url, issued, disk_ok) ==
    LET s == SaveJson(fs, "output_configs", "run_manifest", manifest, disk_ok) IN
    IF s.ok
    THEN Effect(Return(docx_url), s.files, {Path("output_configs", "run_manifest")},
                manifest, TRUE, issued)
    ELSE Effect(ForgeClientError("Failed to save run manifest", "/schema/run"),
                fs, {}, PyNone, TRUE, issued)

\* run_schema keeping the manifest of an earlier run when there is one
SaveRunManifest_KeepsFirst(fs, manifest, docx_url, issued, disk_ok) ==
    IF Path("output_configs", "run_manifest") \in DOMAIN fs
    THEN Effect(Return(docx_url), fs, {}, PyNone, FALSE, issued)
    ELSE LET s == SaveJson(fs, "output_configs", "run_manifest", manifest, disk_ok) IN
         IF s.ok
         THEN Effect(Return(docx_url), s.files, {Path("output_configs", "run_manifest")},
                     manifest, TRUE, issued)
         ELSE Effect(Return(docx_url), fs, {}, PyNone, TRUE, issued)

\* the "save run manifest to workspace" block of run_schema and its return:
\* a failed save is logged, the call returns all the same
SaveRunManifest(fs, manifest, docx_url, issued, disk_ok) ==
    LET s == SaveJson(fs, "output_configs", "run_manifest", manifest, disk_ok) IN
    IF s.ok
    THEN Effect(Return(docx_url), s.files, {Path("output_configs", "run_manifest")},
                manifest, TRUE, issued)
    ELSE Effect(Return(docx_url), fs, {}, PyNone, TRUE, issued)

\* run_schema writing its manifest before it looks at the status
RunSchema_SavesBeforeChecks(fs, schema, plaintext, dest_name, net, disk_ok, now) ==
    LET json_data == RunPayload(schema, plaintext)
        r == MakeRequest("/schema/run", json_data, net)
        n == Issued(json_data)
    IN  IF r.out = "raise" THEN Effect(r, fs, {}, PyNone, FALSE, n)
        ELSE LET status == ResponseGet(r.v, "status")
                 docx_url == ResponseGet(r.v, "docx_url")
             IN
             IF status.out = "raise" THEN Effect(status, fs, {}, PyNone, FALSE, n)
             ELSE LET e == SaveRunManifest(fs,
                                Manifest(schema, plaintext, dest_name, docx_url.v,
                                         status.v, now),
                                docx_url.v, n, disk_ok)
                  IN  IF status.v # PyStr("success")
                      THEN [e EXCEPT !.outcome =
                                ForgeClientError("Schema run failed", "/schema/run")]
                      ELSE IF ~Truthy(docx_url.v)
                      THEN [e EXCEPT !.outcome =
                                ForgeClientError("Missing 'docx_url' in API response",
                                                 "/schema/run")]
                      ELSE e

\* run_schema with the docx_url check made before the status check
RunSchema_UrlCheckFirst(fs, schema, plaintext, dest_name, net, disk_ok, now) ==
    LET json_data == RunPayload(schema, plaintext)
        r == MakeRequest("/schema/run", json_data, net)
        n == Issued(json_data)
    IN  IF r.out = "raise" THEN Effect(r, fs, {}, PyNone, FALSE, n)
        ELSE LET status == ResponseGet(r.v, "status")
                 docx_url == ResponseGet(r.v, "docx_url")
             IN
             IF status.out = "raise" THEN Effect(status, fs, {}, PyNone, FALSE, n)
             ELSE IF ~Truthy(docx_url.v)
             THEN Effect(ForgeClientError("Missing 'docx_url' in API response", "/schema/run"),
                         fs, {}, PyNone, FALSE, n)
             ELSE IF status.v # PyStr("success")
             THEN Effect(ForgeClientError("Schema run failed", "/schema/run"),
                         fs, {}, PyNone, FALSE, n)
             ELSE SaveRunManifest(fs,
                        Manifest(schema, plaintext, dest_name, docx_url.v, status.v, now),
                        docx_url.v, n, disk_ok)

\* ForgeClient.run_schema
RunSchema(fs, schema, plaintext, dest_name, net, disk_ok, now) ==
    LET json_data == RunPayload(schema, plaintext)
        r == MakeRequest("/schema/run", json_data, net)
        n == Issued(json_data)
    IN  IF r.out = "raise" THEN Effect(r, fs, {}, PyNone, FALSE, n)
        ELSE LET status == ResponseGet(r.v, "status")
                 docx_url == ResponseGet(r.v, "docx_url")
             IN
             IF status.out = "raise" THEN Effect(status, fs, {}, PyNone, FALSE, n)
             ELSE IF status.v # PyStr("success")
             THEN Effect(ForgeClientError("Schema run failed", "/schema/run"),
                         fs, {}, PyNone, FALSE, n)
             ELSE IF ~Truthy(docx_url.v)
             THEN Effect(ForgeClientError("Missing 'docx_url' in API response", "/schema/run"),
                         fs, {}, PyNone, FALSE, n)
             ELSE SaveRunManifest(fs,
                        Manifest(schema, plaintext, dest_name, docx_url.v, status.v, now),
                        docx_url.v, n, disk_ok)

IntakePayload(text) == PyDict(<<Item("text", PyStr(text))>>)

\* ForgeClient.intake_plaintext_text
IntakePlaintextText(fs, text, save_as, net, disk_ok) ==
    LET json_data == IntakePayload(text)
        r == MakeRequest("/plaintext/intake", json_data, net)
        n == Issued(json_data)
    IN  IF r.out = "raise" THEN Effect(r, fs, {}, PyNone, FALSE, n)
        ELSE SaveIfRequested(fs, save_as, r.v, "/plaintext/intake", n, disk_ok)

\* the upload with the file opened and closed by hand, the close skipped
\* when the request raises
OpenAndUpload_CloseOnSuccessOnly(net) ==
    LET r == MakeRequest("/plaintext/intake_file", PyNone, net) IN
    [r |-> r, opened |-> 1, closed |-> IF r.out = "raise" THEN 0 ELSE 1]

\* the block "with open(path, 'rb') as f" of intake_plaintext_file once open()
\* has succeeded: the request is made with the handle open, and the context
\* manager closes the handle when the block is left, by return or by exception
OpenAndUpload(net) ==
    LET r == MakeRequest("/plaintext/intake_file", PyNone, net) IN
    [r |-> r, opened |-> 1, closed |-> 1]

\* the effect e of a call that went through the upload u
WithHandle(e, u) == [e EXCEPT !.opened = u.opened, !.closed = u.closed]

\* intake_plaintext_file reporting a bad path as an I/O error
IntakePlaintextFile_PathErrorsAreIO(fs, path_state, save_as, net, disk_ok) ==
    IF path_state = "missing"
    THEN Effect(ForgeClientIOError("File not found", "/plaintext/intake_file", ""),
                fs, {}, PyNone, FALSE, 0)
    ELSE IF path_state = "directory"
    THEN Effect(ForgeClientIOError("Not a file", "/plaintext/intake_file", ""),
                fs, {}, PyNone, FALSE, 0)
    ELSE IF path_state = "unreadable"
    THEN Effect(ForgeClientError("Failed to read file", "/plaintext/intake_file"),
                fs, {}, PyNone, FALSE, 0)
    ELSE LET u == OpenAndUpload(net) IN
         IF u.r.out = "raise"
         THEN IF IsInstance(u.r.cls, "OSError")
              THEN WithHandle(Effect(ForgeClientError("Failed to read file",
                                                      "/plaintext/intake_file"),
                                     fs, {}, PyNone, FALSE, 1), u)
              ELSE WithHandle(Effect(u.r, fs, {}, PyNone, FALSE, 1), u)
         ELSE WithHandle(SaveIfRequested(fs, save_as, u.r.v, "/plaintext/intake_file",
                                         1, disk_ok), u)

\* ForgeClient.intake_plaintext_file; path_state says what file_path names
IntakePlaintextFile(fs, path_state, save_as, net, disk_ok) ==
    IF path_state = "missing"
    THEN Effect(ForgeClientError("File not found", "/plaintext/intake_file"),
                fs, {}, PyNone, FALSE, 0)
    ELSE IF path_state = "directory"
    THEN Effect(ForgeClientError("Not a file", "/plaintext/intake_file"),
                fs, {}, PyNone, FALSE, 0)
    ELSE IF path_state = "unreadable"
    THEN \* open() raises PermissionError, an OSError: no handle comes to be
         Effect(ForgeClientError("Failed to read file", "/plaintext/intake_file"),
                fs, {}, PyNone, FALSE, 0)
    ELSE LET u == OpenAndUpload(net) IN
         IF u.r.out = "raise"
         THEN IF IsInstance(u.r.cls, "OSError")
              THEN WithHandle(Effect(ForgeClientError("Failed to read file",
                                                      "/plaintext/intake_file"),
                                     fs, {}, PyNone, FALSE, 1), u)
              ELSE WithHandle(Effect(u.r, fs, {}, PyNone, FALSE, 1), u)
         ELSE WithHandle(SaveIfRequested(fs, save_as, u.r.v, "/plaintext/intake_file",
                                         1, disk_ok), u)

CompressPayload(schema) == PyDict(<<Item("schema", schema)>>)

\* compress_schema returning whatever the response holds
CompressSchema_NoFieldCheck(fs, schema, save_as, net, disk_ok) ==
    LET json_data == CompressPayload(schema)
        r == MakeRequest("/schema/compress", json_data, net)
        n == Issued(json_data)
        sent(e) == [e EXCEPT !.request = Request("POST", "/schema/compress", json_data)]
    IN  IF r.out = "raise" THEN sent(Effect(r, fs, {}, PyNone, FALSE, n))
        ELSE LET got == ResponseGet(r.v, "compressed_schema") IN
             IF got.out = "raise" THEN sent(Effect(got, fs, {}, PyNone, FALSE, n))
             ELSE LET e == SaveIfRequested(fs, save_as, got.v, "/schema/compress",
                                           n, disk_ok)
                  IN  IF e.outcome.out = "return"
                      THEN sent([e EXCEPT !.outcome = Return(r.v)])
                      ELSE sent(e)

\* ForgeClient.compress_schema(ws, schema, save_as): one POST of
\* {"schema": schema} to /schema/compress; the response is returned whole and
\* its compressed_schema is what save_as stores
CompressSchema(fs, schema, save_as, net, disk_ok) ==
    LET json_data == CompressPayload(schema)
        r == MakeRequest("/schema/compress", json_data, net)
        n == Issued(json_data)
        sent(e) == [e EXCEPT !.request = Request("POST", "/schema/compress", json_data)]
    IN  IF r.out = "raise" THEN sent(Effect(r, fs, {}, PyNone, FALSE, n))
        ELSE LET got == ResponseGet(r.v, "compressed_schema") IN
             IF got.out = "raise" THEN sent(Effect(got, fs, {}, PyNone, FALSE, n))
             ELSE IF ~Truthy(got.v)
             THEN sent(Effect(ForgeClientError("Missing 'compressed_schema' in API response",
                                               "/schema/compress"),
                              fs, {}, PyNone, FALSE, n))
             ELSE LET e == SaveIfRequested(fs, save_as, got.v, "/schema/compress",
                                           n, disk_ok)
                  IN  IF e.outcome.out = "return"
                      THEN sent([e EXCEPT !.outcome = Return(r.v)])
                      ELSE sent(e)

(***************************************************************************)
(* Construction: the client's base URL, the workspace's run and layout     *)
(***************************************************************************)
\* a URL is a sequence of pieces: "/" or a run of characters without "/";
\* an Optional[str] argument or environment variable is given or not
NoUrl == [given |-> FALSE, pieces |-> <<>>]
Url(pieces) == [given |-> TRUE, pieces |-> pieces]

\* bool(x) of an Optional[str]: None and "" are false
UrlTruthy(x) == x.given /\ x.pieces # <<>>

RECURSIVE RStrip(_)
\* str.rstrip("/")
RStrip(pieces) ==
    IF pieces # <<>> /\ pieces[Len(pieces)] = "/"
    THEN RStrip(SubSeq(pieces, 1, Len(pieces) - 1))
    ELSE pieces

\* ForgeClient.DEFAULT_BASE_URL
DEFAULT_BASE_URL == <<"https:", "/", "/", "api.glyphapi.ai">>

\* the client reading the environment before its argument
NewClient_EnvFirst(base_url, env) ==
    LET resolved_url == IF UrlTruthy(env) THEN env.pieces
                        ELSE IF UrlTruthy(base_url) THEN base_url.pieces
                        ELSE DEFAULT_BASE_URL
    IN  [base_url |-> RStrip(resolved_url), arg |-> base_url, env |-> env]

\* ForgeClient.__init__(base_url) with GLYPH_API_BASE = env; arg and env
\* record what the client was constructed from
NewClient(base_url, env) ==
    LET resolved_url == IF UrlTruthy(base_url) THEN base_url.pieces
                        ELSE IF UrlTruthy(env) THEN env.pieces
                        ELSE DEFAULT_BASE_URL
    IN  [base_url |-> RStrip(resolved_url), arg |-> base_url, env |-> env]

\* the run id of a workspace: the literal or a timestamp and a random token
RunId(use_uuid, timestamp, token) ==
    IF use_uuid THEN timestamp \o "_" \o token ELSE "default"

\* os.path.join
Join(a, b) == a \o "/" \o b

NoWorkspace ==
    [exists |-> FALSE, use_uuid |-> FALSE, base_root |-> "", run_id |-> "",
     root_dir |-> "", dirs |-> {}]

\* a workspace that makes its directories on first use
CreateWorkspace_LazyDirs(base_root, use_uuid, timestamp, token) ==
    [exists |-> TRUE, use_uuid |-> use_uuid, base_root |-> base_root,
     run_id |-> RunId(use_uuid, timestamp, token),
     root_dir |-> Join(base_root, RunId(use_uuid, timestamp, token)),
     dirs |-> {}]

\* create_workspace(base_root, use_uuid): the root of the run and every named
\* directory are made at construction
CreateWorkspace(base_root, use_uuid, timestamp, token) ==
    [exists |-> TRUE, use_uuid |-> use_uuid, base_root |-> base_root,
     run_id |-> RunId(use_uuid, timestamp, token),
     root_dir |-> Join(base_root, RunId(use_uuid, timestamp, token)),
     dirs |-> DirNames]

\* delete_workspace(): the root of the run is removed with all under it
DeleteWorkspace(w) == [w EXCEPT !.exists = FALSE, !.dirs = {}]

\* delete_workspace() failing when the root of the run is not there
DeleteOutcome_RaisesWhenGone(w) ==
    IF w.exists THEN Return(PyNone)
    ELSE Raise("FileNotFoundError", "", "", 0, NoText, "")

\* what delete_workspace() gives its caller: the removal ignores a root that
\* is not there
DeleteOutcome(w) == Return(PyNone)

\* save_json returning a path outside the directory of the artifact
SaveJsonPath_NoDirectory(w, dir, key) == Join(w.root_dir, key \o ".json")

\* the path save_json(dir, key, value) writes and returns
SaveJsonPath(w, dir, key) == Join(Join(w.root_dir, dir), key \o ".json")

(***************************************************************************)
(* Inputs                                                                  *)
(***************************************************************************)
MaxCalls == 2

Obj(members) == <<LBrace>> \o members \o <<RBrace>>
Member(k, text) == <<TStr(k), Colon>> \o text

BodyEmpty == NoText
BodyNotJson == <<TWord("Not"), TWord("JSON")>>
BodyEmptyObject == Obj(<<>>)
BodyArray == <<LBrack, TNum(1), RBrack>>
BodySchema == Obj(Member("schema", Obj(Member("v", <<TNum(1)>>))))
BodySchemaEmpty == Obj(Member("schema", Obj(<<>>)))
BodyRunOk ==
    Obj(Member("status", <<TStr("success")>>) \o <<Comma>>
        \o Member("docx_url", <<TStr("/tmp/out.docx")>>))
BodyRunFailed ==
    Obj(Member("status", <<TStr("failed")>>) \o <<Comma>>
        \o Member("docx_url", <<TStr("/tmp/out.docx")>>))
BodyRunFailedNoUrl == Obj(Member("status", <<TStr("failed")>>))
BodyRunNoUrl == Obj(Member("status", <<TStr("success")>>))
BodyRunEmptyUrl ==
    Obj(Member("status", <<TStr("success")>>) \o <<Comma>>
        \o Member("docx_url", <<TStr("")>>))

Bodies ==
    {BodyNotJson, BodyEmptyObject, BodyArray, BodySchema, BodySchemaEmpty,
     BodyRunOk, BodyRunFailed, BodyRunFailedNoUrl, BodyRunNoUrl, BodyRunEmptyUrl}

TransportErrors == {"ConnectTimeout", "ReadError", "RemoteProtocolError", "InvalidURL"}

\* what the transport can do with a request
Nets ==
    {Response(200, b) : b \in Bodies}
        \cup {Response(299, BodySchema), Response(299, BodyRunOk)}
        \cup {Response(300, BodyEmpty), Response(404, BodyNotJson), Response(500, BodyRunOk)}
        \cup {TransportRaises(e) : e \in TransportErrors}
NoNet == [kind |-> "none", status_code |-> 0, text |-> NoText, exc |-> ""]

SaveAsArgs == {PyNone, PyStr(""), PyStr("k1")}
Schemas ==
    {PyDict(<<>>),
     PyDict(<<Item("b", PyInt(1)), Item("a", PyInt(2))>>),
     PyDict(<<Item("a", PyInt(2)), Item("b", PyInt(1))>>),
     PyDict(<<Item("s", PySet(<<>>))>>)}
\* <<plaintext, dest_name>>
RunArgs == {<<"", "assembled_output.docx">>, <<"hi", "out.docx">>}
PathStates == {"missing", "directory", "unreadable", "file"}

\* arguments of the direct save_json and load_json calls
WsDirs == {"output_configs", "nowhere"}
WsKeys == {"k1", "run_manifest"}
WsValues ==
    {PyDict(<<Item("v", PyInt(1)), Item("a", PyList(<<PyNone, PyBool(TRUE)>>))>>),
     PyDict(<<Item("a", PyTuple(<<PyInt(1)>>))>>),
     PyDict(<<Item("s", PySet(<<>>))>>)}

\* responses whose expected field is there and empty
BodySchemaNull == Obj(Member("schema", <<TLit("null")>>))
BodySchemaEmptyList == Obj(Member("schema", <<LBrack, RBrack>>))
BodyRunNullUrl ==
    Obj(Member("status", <<TStr("success")>>) \o <<Comma>>
        \o Member("docx_url", <<TLit("null")>>))
FieldNets ==
    {Response(200, b) :
        b \in {BodySchema, BodySchemaEmpty, BodySchemaNull, BodySchemaEmptyList,
               BodyEmptyObject, BodyRunOk, BodyRunEmptyUrl, BodyRunNullUrl, BodyRunNoUrl}}

\* responses to a compress request
BodyCompressed ==
    Obj(Member("compressed_schema", Obj(Member("v", <<TNum(1)>>))) \o <<Comma>>
        \o Member("stats", Obj(Member("reduction", <<TNum(3)>>))))
BodyStatsOnly == Obj(Member("stats", Obj(Member("reduction", <<TNum(3)>>))))
CompressNets ==
    {Response(200, BodyCompressed), Response(200, BodyStatsOnly),
     Response(200, BodyEmptyObject), Response(200, BodyNotJson),
     Response(500, BodyNotJson), Response(404, BodyCompressed),
     TransportRaises("ReadError")}

\* arguments and environment of the construction of a client
UrlArgs ==
    {NoUrl, Url(<<>>), Url(<<"http:", "/", "/", "h">>),
     Url(<<"http:", "/", "/", "h", "/", "/">>)}
EnvUrls == {NoUrl, Url(<<>>), Url(<<"http:", "/", "/", "e", "/">>), Url(<<"/">>)}

\* construction of a workspace
BaseRoot == "/tmp/ws"
Tokens == {"1a2b3c4d", "default"}
\* datetime.now().strftime(...) at clock reading now
Stamp(now) == "20250101T00000" \o ToString(now)

\* what the caller of the lifecycle passes to the operations
LifeNets == {Response(200, BodySchema), Response(200, BodyRunOk), TransportRaises("ReadError")}
LifeSaveAsArgs == {PyNone, PyStr("k1")}
LifeSchemas == {PyDict(<<Item("a", PyInt(2)), Item("b", PyInt(1))>>)}
LifeRunArgs == {<<"hi", "out.docx">>}
LifePathStates == {"missing", "file"}
LifeValues == {PyDict(<<Item("v", PyInt(1)), Item("a", PyList(<<PyNone, PyBool(TRUE)>>))>>)}

(***************************************************************************)
(* The engine factory and the local adapter                                *)
(***************************************************************************)
\* what the process can import: the module of the local adapter, and the SDK
Env(local_importable, sdk_installed) ==
    [local_importable |-> local_importable, sdk_installed |-> sdk_installed]

\* HAS_SDK of the module of the local adapter: whether its import of the SDK
\* succeeded
LocalHasSdk(env) == env.sdk_installed

\* HAS_SDK of the factory: the value imported from the module of the local
\* adapter, False when that import raises ImportError
HAS_SDK(env) == IF env.local_importable THEN LocalHasSdk(env) ELSE FALSE

Adapter(cls) == [t |-> "adapter", cls |-> cls]
GlyphEngine(adapter) == [t |-> "engine", adapter |-> adapter]
ImportError(msg) == Raise("ImportError", msg, "", 0, NoText, "")

\* LocalEngineAdapter(workspace)
NewLocalEngineAdapter(env) ==
    IF ~LocalHasSdk(env)
    THEN ImportError("LocalEngineAdapter requires the glyph-sdk package.")
    ELSE Return(Adapter("LocalEngineAdapter"))

\* the name LocalEngineAdapter as the factory holds it: the class, or None
\* when the module could not be imported
CallLocalEngineAdapter(env) ==
    IF ~env.local_importable
    THEN Raise("TypeError", "'NoneType' object is not callable", "", 0, NoText, "")
    ELSE NewLocalEngineAdapter(env)

NewClientEngineAdapter == Return(Adapter("ClientEngineAdapter"))

\* EngineFactory.create with the automatic mode always taking the local adapter
EngineFactoryCreate_AutoIsLocal(mode, env) ==
    LET adapter ==
            IF mode = "client" THEN NewClientEngineAdapter
            ELSE IF mode = "local"
            THEN IF ~HAS_SDK(env)
                 THEN ImportError("Local mode requires the glyph-sdk package to be installed.")
                 ELSE CallLocalEngineAdapter(env)
            ELSE CallLocalEngineAdapter(env)
    IN  IF adapter.out = "raise" THEN adapter ELSE Return(GlyphEngine(adapter.v))

\* EngineFactory.create(workspace, cfg) for a configuration of the given mode
EngineFactoryCreate(mode, env) ==
    LET adapter ==
            IF mode = "client" THEN NewClientEngineAdapter
            ELSE IF mode = "local"
            THEN IF ~HAS_SDK(env)
                 THEN ImportError("Local mode requires the glyph-sdk package to be installed.")
                 ELSE CallLocalEngineAdapter(env)
            ELSE IF HAS_SDK(env) THEN CallLocalEngineAdapter(env)
            ELSE NewClientEngineAdapter
    IN  IF adapter.out = "raise" THEN adapter ELSE Return(GlyphEngine(adapter.v))

\* an entry of the files mapping of a call: its key, and whether the object
\* in its tuple has a close method (an open file has, bytes have not)
HandleEntry(key) == [key |-> key, closable |-> TRUE]
BytesEntry(key) == [key |-> key, closable |-> FALSE]

\* open(path, "rb"): the class of the exception it raises, "" when it opens
OpenRb(path_state) ==
    CASE path_state = "file" -> ""
      [] path_state = "unreadable" -> "PermissionError"
      [] OTHER -> "FileNotFoundError"

\* the two conditional opens at the head of the try block, in order; an
\* entry is stored once its open has returned, and the first open that raises
\* ends the block
OpenUploads(table, docx_path, plaintext_path) ==
    LET d == IF docx_path = "" THEN [table |-> table, opened |-> 0, exc |-> ""]
             ELSE IF OpenRb(docx_path) # ""
             THEN [table |-> table, opened |-> 0, exc |-> OpenRb(docx_path)]
             ELSE [table |-> Append(table, HandleEntry("docx")), opened |-> 1, exc |-> ""]
    IN  IF d.exc # "" \/ plaintext_path = "" THEN d
        ELSE IF OpenRb(plaintext_path) # ""
        THEN [d EXCEPT !.exc = OpenRb(plaintext_path)]
        ELSE [table |-> Append(d.table, HandleEntry("plaintext")),
              opened |-> d.opened + 1, exc |-> ""]

\* resp = self._client.post(...); resp.raise_for_status(); return resp.json()
PostAndParse(endpoint, net) ==
    IF net.kind = "raise" THEN Raise(net.exc, "", endpoint, 0, NoText, "")
    ELSE IF net.status_code \notin 200..299
    THEN Raise("HTTPStatusError", "", endpoint, net.status_code, net.text, "")
    ELSE LET parsed == Loads(net.text) IN
         IF ~parsed.ok THEN Raise("JSONDecodeError", "", endpoint, 0, NoText, "")
         ELSE Return(parsed.v)

\* the handler written as "except httpx.HTTPError"
ExceptRequestError_CatchesHTTPError(out, name) ==
    IF out.out = "raise" /\ IsInstance(out.cls, "HTTPError")
    THEN Raise("EngineIOError", "Network error during " \o name, "", 0, NoText, out.cls)
    ELSE out

\* except httpx.RequestError as e: raise EngineIOError(...) from e
ExceptRequestError(out, name) ==
    IF out.out = "raise" /\ IsInstance(out.cls, "RequestError")
    THEN Raise("EngineIOError", "Network error during " \o name, "", 0, NoText, out.cls)
    ELSE out

\* the finally block of build_schema: every entry whose object has a close
\* method is closed; the keys of the entries closed
CloseUploads(table) ==
    {table[i].key : i \in {j \in DOMAIN table : table[j].closable}}

\* the finally block of run_schema: the same, the "schema" entry passed over
CloseUploadsButSchema(table) ==
    {table[i].key : i \in {j \in DOMAIN table : table[j].key # "schema" /\ table[j].closable}}

\* whether the call got as far as handing a request to the transport
Posted(o, net) == IF o.exc = "" /\ net.exc # "AttributeError" THEN 1 ELSE 0

\* the effect of a call of the local adapter
LocalEffect(out, fs, o, net, closed) ==
    [Effect(out, fs, {}, PyNone, FALSE, Posted(o, net)) EXCEPT
        !.opened = o.opened, !.closed = Cardinality(closed), !.closed_keys = closed]

\* build_schema closing its files after the return statement, without finally
LocalBuildSchema_NoFinally(fs, docx_path, plaintext_path, net) ==
    LET o == OpenUploads(<<>>, docx_path, plaintext_path)
        t == IF o.exc # "" THEN Raise(o.exc, "", "", 0, NoText, "")
             ELSE PostAndParse("/schema/build", net)
        out == ExceptRequestError(t, "build_schema")
    IN  LocalEffect(out, fs, o, net, IF out.out = "return" THEN CloseUploads(o.table) ELSE {})

\* LocalEngineAdapter.build_schema(docx_path, plaintext_path, options)
LocalBuildSchema(fs, docx_path, plaintext_path, net) ==
    LET o == OpenUploads(<<>>, docx_path, plaintext_path)
        t == IF o.exc # "" THEN Raise(o.exc, "", "", 0, NoText, "")
             ELSE PostAndParse("/schema/build", net)
        out == ExceptRequestError(t, "build_schema")
    IN  LocalEffect(out, fs, o, net, CloseUploads(o.table))

\* LocalEngineAdapter.run_schema(schema, source_docx, plaintext_path, options)
LocalRunSchema(fs, source_docx, plaintext_path, net) ==
    LET o == OpenUploads(<<BytesEntry("schema")>>, source_docx, plaintext_path)
        t == IF o.exc # "" THEN Raise(o.exc, "", "", 0, NoText, "")
             ELSE PostAndParse("/schema/run", net)
        out == ExceptRequestError(t, "run_schema")
    IN  LocalEffect(out, fs, o, net, CloseUploadsButSchema(o.table))

\* None or "", a file that opens, a path with no file, a file that may not
\* be read
EnginePaths == {"", "file", "missing", "unreadable"}
\* what self._client.post does; AttributeError is the call on an adapter that
\* was given no _client
EngineNets ==
    {Response(200, BodySchema), Response(200, BodyNotJson), Response(204, BodyEmpty),
     Response(404, BodyNotJson), Response(500, BodyEmpty),
     TransportRaises("ConnectError"), TransportRaises("ReadTimeout"),
     TransportRaises("AttributeError")}
\* the transport is consulted only once both opens are through
EngineNetsFor(docx_path, plaintext_path) ==
    IF OpenUploads(<<>>, docx_path, plaintext_path).exc = "" THEN EngineNets ELSE {NoNet}

\* no adapter constructed yet
NoEngine(env) == [env |-> env, adapter |-> ""]

\* the modes a configuration can carry; "auto" and "" stand for every mode
\* that is neither "client" nor "local"
Modes == {"client", "local", "auto", ""}
Envs == {Env(i, s) : i \in BOOLEAN, s \in BOOLEAN}

(***************************************************************************)
(* State                                                                   *)
(***************************************************************************)
VARIABLES
    files,   \* the workspace: path -> JSON text of the file there
    saved,   \* path -> the value handed to the save_json that wrote the file
    last,    \* the most recent call: its arguments, what the transport did, its outcome
    calls,   \* calls made so far; the clock datetime.now() reads
    requests,      \* HTTP requests handed to the transport so far
    open_handles,  \* upload file handles open between calls
    client,  \* the ForgeClient: its base_url and what it was constructed from
    ws,      \* the workspace: its run id, its root and the directories on disk
    engine   \* what the process could import, and the adapter last constructed

vars == <<files, saved, last, calls, requests, open_handles, client, ws, engine>>

NoArgs ==
    [save_as |-> PyNone, schema |-> PyNone, plaintext |-> "", dest_name |-> "",
     path_state |-> "", dir |-> "", key |-> "", value |-> PyNone,
     mode |-> "", docx_path |-> "", plaintext_path |-> ""]

Call(op, args, net, e) ==
    [op |-> op, args |-> args, net |-> net, outcome |-> e.outcome, wrote |-> e.wrote,
     save_attempted |-> e.save_attempted, save_failed |-> e.save_failed,
     issued |-> e.issued, opened |-> e.opened, closed |-> e.closed,
     request |-> e.request, closed_keys |-> e.closed_keys]

NoEffect == Effect(Return(PyNone), <<>>, {}, PyNone, FALSE, 0)

\* a client with the default base URL and a workspace of a run of its own
Init ==
    /\ files = <<>>
    /\ saved = <<>>
    /\ last = Call("create_workspace", NoArgs, NoNet, NoEffect)
    /\ calls = 0
    /\ requests = 0
    /\ open_handles = 0
    /\ client = NewClient(NoUrl, NoUrl)
    /\ ws = CreateWorkspace(BaseRoot, TRUE, Stamp(0), "1a2b3c4d")
    /\ engine = NoEngine(Env(TRUE, FALSE))

\* the state after a call with effect e
Apply(op, args, net, e) ==
    /\ files' = e.files
    /\ saved' = [q \in (DOMAIN saved) \cup e.wrote |->
                    IF q \in e.wrote THEN e.value ELSE saved[q]]
    /\ last' = Call(op, args, net, e)
    /\ calls' = calls + 1
    /\ requests' = requests + e.issued
    /\ open_handles' = open_handles + e.opened - e.closed
    /\ UNCHANGED <<client, ws, engine>>

\* the transport is consulted only by a call that issues its request
NetsFor(issued, nets) == IF issued = 1 THEN nets ELSE {NoNet}
\* the upload can fail, too, on a read of the open file
FileNetsFor(path_state, nets) ==
    IF path_state = "file" THEN nets \cup {TransportRaises("OSError")} ELSE {NoNet}
\* the filesystem is consulted only by a call that attempts a save
DisksFor(e) == IF e.save_attempted THEN BOOLEAN ELSE {TRUE}

\* client.build_schema_from_docx(ws, docx_path, save_as)
BuildSchemaCalls(save_as_args, nets) ==
    /\ calls < MaxCalls
    /\ ws.exists
    /\ \E save_as \in save_as_args, net \in nets :
        \E disk_ok \in DisksFor(BuildSchemaFromDocx(files, "a.docx", save_as, net, TRUE)) :
            Apply("build_schema_from_docx", [NoArgs EXCEPT !.save_as = save_as], net,
                  BuildSchemaFromDocx(files, "a.docx", save_as, net, disk_ok))

\* client.run_schema(ws, schema, plaintext, dest_name)
RunSchemaCalls(schemas, run_args, nets) ==
    /\ calls < MaxCalls
    /\ ws.exists
    /\ \E schema \in schemas, a \in run_args :
        LET plaintext == a[1]
            dest_name == a[2]
        IN  \E net \in NetsFor(Issued(RunPayload(schema, plaintext)), nets) :
                \E disk_ok \in DisksFor(RunSchema(files, schema, plaintext, dest_name,
                                                  net, TRUE, calls)) :
                    Apply("run_schema",
                          [NoArgs EXCEPT !.schema = schema, !.plaintext = plaintext,
                                         !.dest_name = dest_name],
                          net,
                          RunSchema(files, schema, plaintext, dest_name, net, disk_ok, calls))

\* client.intake_plaintext_text(ws, text, save_as)
IntakeTextCalls(save_as_args, nets) ==
    /\ calls < MaxCalls
    /\ ws.exists
    /\ \E save_as \in save_as_args, net \in nets :
        \E disk_ok \in DisksFor(IntakePlaintextText(files, "hi", save_as, net, TRUE)) :
            Apply("intake_plaintext_text", [NoArgs EXCEPT !.save_as = save_as], net,
                  IntakePlaintextText(files, "hi", save_as, net, disk_ok))

\* client.intake_plaintext_file(ws, file_path, save_as)
IntakeFileCalls(path_states, save_as_args, nets) ==
    /\ calls < MaxCalls
    /\ ws.exists
    /\ \E path_state \in path_states, save_as \in save_as_args :
        \E net \in FileNetsFor(path_state, nets) :
            \E disk_ok \in DisksFor(IntakePlaintextFile(files, path_state, save_as,
                                                        net, TRUE)) :
                Apply("intake_plaintext_file",
                      [NoArgs EXCEPT !.path_state = path_state, !.save_as = save_as], net,
                      IntakePlaintextFile(files, path_state, save_as, net, disk_ok))

\* a caller's own ws.save_json(dir, key, value)
SaveJsonCalls(values) ==
    /\ calls < MaxCalls
    /\ ws.exists
    /\ \E dir \in WsDirs, key \in WsKeys, value \in values, disk_ok \in BOOLEAN :
        LET s == SaveJson(files, dir, key, value, disk_ok) IN
        Apply("save_json", [NoArgs EXCEPT !.dir = dir, !.key = key, !.value = value], NoNet,
              IF s.ok
              THEN Effect(Return(PyStr(SaveJsonPath(ws, dir, key))), s.files,
                          {Path(dir, key)}, value, TRUE, 0)
              ELSE Effect(Raise(s.exc, "", "", 0, NoText, ""), files, {}, PyNone, TRUE, 0))

\* a caller's own ws.load_json(dir, key)
LoadJsonCalls ==
    /\ calls < MaxCalls
    /\ ws.exists
    /\ \E dir \in WsDirs, key \in WsKeys :
        Apply("load_json", [NoArgs EXCEPT !.dir = dir, !.key = key], NoNet,
              Effect(LoadJson(files, dir, key), files, {}, PyNone, FALSE, 0))

\* client.compress_schema(ws, schema, save_as)
CompressSchemaCalls(schemas, save_as_args, nets) ==
    /\ calls < MaxCalls
    /\ ws.exists
    /\ \E schema \in schemas, save_as \in save_as_args :
        \E net \in NetsFor(Issued(CompressPayload(schema)), nets) :
            \E disk_ok \in DisksFor(CompressSchema(files, schema, save_as, net, TRUE)) :
                Apply("compress_schema",
                      [NoArgs EXCEPT !.schema = schema, !.save_as = save_as], net,
                      CompressSchema(files, schema, save_as, net, disk_ok))

DoBuildSchemaFromDocx == BuildSchemaCalls(SaveAsArgs, Nets)
DoRunSchema == RunSchemaCalls(Schemas, RunArgs, Nets)
DoIntakePlaintextText == IntakeTextCalls(SaveAsArgs, Nets)
DoIntakePlaintextFile == IntakeFileCalls(PathStates, SaveAsArgs, Nets)
DoSaveJson == SaveJsonCalls(WsValues)
DoLoadJson == LoadJsonCalls

Next ==
    \/ DoBuildSchemaFromDocx
    \/ DoRunSchema
    \/ DoIntakePlaintextText
    \/ DoIntakePlaintextFile
    \/ DoSaveJson
    \/ DoLoadJson

\* the operations of a client on a workspace
Spec == Init /\ [][Next]_vars

(***************************************************************************)
(* The life of a client and a workspace: construction, use, teardown       *)
(***************************************************************************)
\* a call that is neither a client operation nor a save or load
Setup(op) ==
    /\ last' = Call(op, NoArgs, NoNet, NoEffect)
    /\ calls' = calls + 1
    /\ UNCHANGED <<requests, open_handles, engine>>

\* ForgeClient(base_url) with GLYPH_API_BASE as the environment has it
DoNewClient ==
    /\ calls < MaxCalls
    /\ \E base_url \in UrlArgs, env \in EnvUrls :
        client' = NewClient(base_url, env)
    /\ Setup("ForgeClient")
    /\ UNCHANGED <<files, saved, ws>>

\* create_workspace(use_uuid=...)
DoCreateWorkspace ==
    /\ calls < MaxCalls
    /\ ~ws.exists
    /\ \E use_uuid \in BOOLEAN, token \in Tokens :
        ws' = CreateWorkspace(BaseRoot, use_uuid, Stamp(calls), token)
    /\ Setup("create_workspace")
    /\ UNCHANGED <<files, saved, client>>

\* ws.delete_workspace(): recursive removal, a second call removes nothing
\* the call records as path_state what it found at the root of the run
DoDeleteWorkspace ==
    /\ calls < MaxCalls
    /\ ws' = DeleteWorkspace(ws)
    /\ files' = <<>>
    /\ saved' = <<>>
    /\ last' = Call("delete_workspace",
                    [NoArgs EXCEPT !.path_state = IF ws.exists THEN "directory" ELSE "missing"],
                    NoNet, [NoEffect EXCEPT !.outcome = DeleteOutcome(ws)])
    /\ calls' = calls + 1
    /\ UNCHANGED <<requests, open_handles, client, engine>>

\* EngineFactory.create(ws, cfg); cfg=None takes the mode of WorkspaceConfig()
DoEngineFactoryCreate ==
    /\ calls < MaxCalls
    /\ \E mode \in Modes :
        LET out == EngineFactoryCreate(mode, engine.env) IN
        /\ engine' = IF out.out = "return"
                     THEN [engine EXCEPT !.adapter = out.v.adapter.cls]
                     ELSE engine
        /\ last' = Call("EngineFactory.create", [NoArgs EXCEPT !.mode = mode], NoNet,
                        [NoEffect EXCEPT !.outcome = out])
    /\ calls' = calls + 1
    /\ UNCHANGED <<files, saved, requests, open_handles, client, ws>>

\* LocalEngineAdapter(ws), by a caller that imported the class itself
DoNewLocalEngineAdapter ==
    /\ calls < MaxCalls
    /\ engine.env.local_importable
    /\ LET out == NewLocalEngineAdapter(engine.env) IN
        /\ engine' = IF out.out = "return"
                     THEN [engine EXCEPT !.adapter = out.v.cls]
                     ELSE engine
        /\ last' = Call("LocalEngineAdapter", NoArgs, NoNet,
                        [NoEffect EXCEPT !.outcome = out])
    /\ calls' = calls + 1
    /\ UNCHANGED <<files, saved, requests, open_handles, client, ws>>

DoLocalBuildSchema ==
    /\ calls < MaxCalls
    /\ engine.adapter = "LocalEngineAdapter"
    /\ \E docx_path \in EnginePaths, plaintext_path \in EnginePaths :
        \E net \in EngineNetsFor(docx_path, plaintext_path) :
            Apply("LocalEngineAdapter.build_schema",
                  [NoArgs EXCEPT !.docx_path = docx_path, !.plaintext_path = plaintext_path],
                  net, LocalBuildSchema(files, docx_path, plaintext_path, net))

DoLocalRunSchema ==
    /\ calls < MaxCalls
    /\ engine.adapter = "LocalEngineAdapter"
    /\ \E source_docx \in EnginePaths, plaintext_path \in EnginePaths :
        \E net \in EngineNetsFor(source_docx, plaintext_path) :
            Apply("LocalEngineAdapter.run_schema",
                  [NoArgs EXCEPT !.docx_path = source_docx, !.plaintext_path = plaintext_path],
                  net, LocalRunSchema(files, source_docx, plaintext_path, net))

\* a process with any of the importable sets, and no adapter yet
InitEngine ==
    /\ files = <<>>
    /\ saved = <<>>
    /\ last = Call("create_workspace", NoArgs, NoNet, NoEffect)
    /\ calls = 0
    /\ requests = 0
    /\ open_handles = 0
    /\ client = NewClient(NoUrl, NoUrl)
    /\ ws = CreateWorkspace(BaseRoot, TRUE, Stamp(0), "1a2b3c4d")
    /\ engine \in {NoEngine(env) : env \in Envs}

NextEngine ==
    \/ DoEngineFactoryCreate
    \/ DoNewLocalEngineAdapter
    \/ DoLocalBuildSchema
    \/ DoLocalRunSchema

SpecEngine == InitEngine /\ [][NextEngine]_vars

UseBuildSchemaFromDocx == BuildSchemaCalls(LifeSaveAsArgs, LifeNets)
UseRunSchema == RunSchemaCalls(LifeSchemas, LifeRunArgs, LifeNets)
UseIntakePlaintextText == IntakeTextCalls(LifeSaveAsArgs, LifeNets)
UseIntakePlaintextFile == IntakeFileCalls(LifePathStates, LifeSaveAsArgs, LifeNets)
UseSaveJson == SaveJsonCalls(LifeValues)
UseLoadJson == LoadJsonCalls

InitLifecycle ==
    /\ files = <<>>
    /\ saved = <<>>
    /\ last = Call("none", NoArgs, NoNet, NoEffect)
    /\ calls = 0
    /\ requests = 0
    /\ open_handles = 0
    /\ client = NewClient(NoUrl, NoUrl)
    /\ ws = NoWorkspace
    /\ engine = NoEngine(Env(TRUE, FALSE))

NextLifecycle ==
    \/ DoNewClient
    \/ DoCreateWorkspace
    \/ DoDeleteWorkspace
    \/ UseBuildSchemaFromDocx
    \/ UseRunSchema
    \/ UseIntakePlaintextText
    \/ UseIntakePlaintextFile
    \/ UseSaveJson
    \/ UseLoadJson

\* a caller who constructs clients and workspaces, uses them and tears the
\* workspace down
SpecLifecycle == InitLifecycle /\ [][NextLifecycle]_vars

NextSaving ==
    \/ DoBuildSchemaFromDocx
    \/ DoIntakePlaintextText
    \/ DoIntakePlaintextFile

\* a caller of the three operations that take save_as
SpecSaving == Init /\ [][NextSaving]_vars

FieldsBuildSchemaFromDocx == BuildSchemaCalls(SaveAsArgs, FieldNets)
FieldsRunSchema == RunSchemaCalls(LifeSchemas, RunArgs, FieldNets)

NextFields ==
    \/ FieldsBuildSchemaFromDocx
    \/ FieldsRunSchema

\* a caller whose service answers 200 with the expected field full, empty
\* or absent
SpecFields == Init /\ [][NextFields]_vars

NextRuns == DoRunSchema

\* a caller who only runs schemas, one run after the other, on one workspace
SpecRuns == Init /\ [][NextRuns]_vars

DoCompressSchema == CompressSchemaCalls(Schemas, SaveAsArgs, CompressNets)

NextCompress ==
    \/ DoCompressSchema
    \/ UseLoadJson

\* a caller who compresses schemas and reads the workspace
SpecCompress == Init /\ [][NextCompress]_vars

\* the same caller, starting with a client and a workspace in hand
SpecTeardown == Init /\ [][NextLifecycle]_vars

TypeOK ==
    /\ calls \in 0..MaxCalls
    /\ DOMAIN files = DOMAIN saved
    /\ last.outcome.out \in {"return", "raise"}
    /\ requests \in 0..calls
    /\ open_handles \in 0..calls
    /\ ws.exists \in BOOLEAN
    /\ ws.dirs \subseteq DirNames

(***************************************************************************)
(* Vocabulary of the properties                                            *)
(***************************************************************************)
ClientOps ==
    {"build_schema_from_docx", "run_schema", "intake_plaintext_text",
     "intake_plaintext_file"}
SavingOps == ClientOps \ {"run_schema"}

\* the endpoint each operation posts to
EndpointOf(op) ==
    CASE op = "build_schema_from_docx" -> "/schema/build"
      [] op = "run_schema" -> "/schema/run"
      [] op = "intake_plaintext_text" -> "/plaintext/intake"
      [] op = "intake_plaintext_file" -> "/plaintext/intake_file"
      [] OTHER -> ""

\* the field each operation expects in the response
ExpectedField(op) ==
    CASE op = "build_schema_from_docx" -> "schema"
      [] op = "run_schema" -> "docx_url"
      [] OTHER -> ""

Returned == last.outcome.out = "return"
Raised == last.outcome.out = "raise"
RaisedClass(cls) == Raised /\ last.outcome.cls = cls

GotResponse == last.op \in ClientOps /\ last.net.kind = "response"
Got2xx == GotResponse /\ 200 <= last.net.status_code /\ last.net.status_code <= 299
GotNon2xx == GotResponse /\ ~(200 <= last.net.status_code /\ last.net.status_code <= 299)

\* the body of the response does not carry the field as a member of an object
LacksField(text, name) ==
    LET parsed == Loads(text) IN
    ~parsed.ok \/ parsed.v.t # "dict" \/ name \notin DictKeys(parsed.v)

RECURSIVE IsJSON(_)
\* the values JSON has: no tuple, no set
IsJSON(v) ==
    CASE v.t \in {"tuple", "set"} -> FALSE
      [] v.t = "list" -> \A j \in 1..Len(v.items) : IsJSON(v.items[j])
      [] v.t = "dict" -> \A j \in 1..Len(v.items) : IsJSON(v.items[j].v)
      [] OTHER -> TRUE

ManifestPath == Path("output_configs", "run_manifest")

\* the stored run manifest was written by the last call and carries the hash
\* of the schema passed to it
ManifestOfLastCall ==
    /\ ManifestPath \in last.wrote
    /\ LET m == LoadJson(files, "output_configs", "run_manifest") IN
       /\ m.out = "return"
       /\ m.v.t = "dict"
       /\ "schema_hash" \in DictKeys(m.v)
       /\ DictGet(m.v, "schema_hash") = PyStr(SchemaHash(last.args.schema))
       /\ DictGet(m.v, "timestamp") = PyStr(IsoFormat(calls - 1))

(***************************************************************************)
(* Properties                                                              *)
(***************************************************************************)

\* C1: in every client operation a response with a status outside 200..299
\* ends the call with a ForgeClientHTTPError whose status_code and
\* response_body are those of the response.
C1_NonSuccessStatusIsHTTPError ==
    GotNon2xx =>
        /\ RaisedClass("ForgeClientHTTPError")
        /\ last.outcome.status_code = last.net.status_code
        /\ last.outcome.response_body = last.net.text

C1_Witness ==
    /\ last.op = "intake_plaintext_file"
    /\ last.net = Response(404, BodyNotJson)
    /\ RaisedClass("ForgeClientHTTPError")

\* C2: in every client operation a timeout or network failure of the
\* transport ends the call with a ForgeClientIOError that carries the
\* endpoint of the request and the transport's error, never with a
\* ForgeClientHTTPError.
C2_TransportFailureIsIOError ==
    (/\ last.op \in ClientOps
     /\ last.net.kind = "raise"
     /\ \/ IsInstance(last.net.exc, "TimeoutException")
        \/ IsInstance(last.net.exc, "NetworkError"))
    => /\ RaisedClass("ForgeClientIOError")
       /\ last.outcome.endpoint = EndpointOf(last.op)
       /\ last.outcome.original_error = last.net.exc

C2_Witness ==
    /\ last.op = "run_schema"
    /\ last.net = TransportRaises("ReadError")
    /\ RaisedClass("ForgeClientIOError")

\* C3 as stated: whenever run_schema returns, the workspace holds a run
\* manifest written by that call with the hash of the schema passed to it.
C3_Original ==
    (last.op = "run_schema" /\ Returned) => ManifestOfLastCall

\* C3 amended: whenever run_schema returns and its save of the manifest did
\* not fail, the workspace holds a run manifest written by that call with the
\* hash of the schema passed to it.
C3_ManifestUnlessSaveFailed ==
    (last.op = "run_schema" /\ Returned /\ ~last.save_failed) => ManifestOfLastCall

C3_Witness ==
    /\ last.op = "run_schema"
    /\ Returned
    /\ ~last.save_failed
    /\ ManifestPath \in DOMAIN files
    /\ last.args.schema = PyDict(<<Item("b", PyInt(1)), Item("a", PyInt(2))>>)

\* C4: a 2xx response whose body lacks the expected field ('schema' for
\* build_schema_from_docx, 'docx_url' for run_schema) ends the call with a
\* plain ForgeClientError that names the endpoint, never with an exception
\* of another type.
C4_MissingFieldIsClientError ==
    (/\ last.op \in {"build_schema_from_docx", "run_schema"}
     /\ Got2xx
     /\ LacksField(last.net.text, ExpectedField(last.op)))
    => /\ RaisedClass("ForgeClientError")
       /\ last.outcome.endpoint = EndpointOf(last.op)

\* C5: every failure that escapes a client operation is an I/O error, an
\* HTTP error or a plain client error.
C5_OnlyThreeErrorKinds ==
    (last.op \in ClientOps /\ Raised)
    => last.outcome.cls \in {"ForgeClientIOError", "ForgeClientHTTPError", "ForgeClientError"}

\* C6: when the exchange of run_schema succeeded and the write of the run
\* manifest fails, run_schema still returns the docx_url of the response.
C6_ManifestFailureNotPropagated ==
    (last.op = "run_schema" /\ last.save_failed)
    => /\ Returned
       /\ last.outcome.v = DictGet(Loads(last.net.text).v, "docx_url")
       /\ Truthy(last.outcome.v)

C6_Witness ==
    /\ last.op = "run_schema"
    /\ last.save_failed
    /\ last.outcome = Return(PyStr("/tmp/out.docx"))

\* C7: in build_schema_from_docx and the two intake operations, when save_as
\* is given, the exchange succeeded and the save to the workspace fails, the
\* call ends with a plain ForgeClientError.
C7_RequestedSaveFailureIsClientError ==
    (last.op \in SavingOps /\ last.save_failed) => RaisedClass("ForgeClientError")

C7_Witness ==
    /\ last.op = "build_schema_from_docx"
    /\ Truthy(last.args.save_as)
    /\ Got2xx
    /\ last.save_failed
    /\ RaisedClass("ForgeClientError")

\* C8: load_json(dir, key) made after save_json(dir, key, v) of a JSON value
\* v, no other save under the key in between, returns a value equal to v.
C8_LoadReturnsSaved ==
    (/\ last.op = "load_json"
     /\ Path(last.args.dir, last.args.key) \in DOMAIN saved
     /\ IsJSON(saved[Path(last.args.dir, last.args.key)]))
    => /\ Returned
       /\ PyEq(last.outcome.v, saved[Path(last.args.dir, last.args.key)])

C8_Witness ==
    /\ last.op = "load_json"
    /\ Returned
    /\ Path("output_configs", "k1") \in DOMAIN saved
    /\ last.args.key = "k1"
    /\ saved[Path("output_configs", "k1")] =
            PyDict(<<Item("v", PyInt(1)), Item("a", PyList(<<PyNone, PyBool(TRUE)>>))>>)

\* C9: a run_schema call that ends with an error leaves every file of the
\* workspace as it was.
C9_FailedRunWritesNothing ==
    [][(last'.op = "run_schema" /\ last'.outcome.out = "raise" /\ calls' # calls)
            => files' = files]_vars

C9_Witness ==
    /\ last.op = "run_schema"
    /\ RaisedClass("ForgeClientError")
    /\ last.net = Response(200, BodyRunFailed)
    /\ ManifestPath \in DOMAIN files

\* C10 as stated: when build_schema_from_docx or an intake operation is
\* called with save_as = k and returns, the artifact stored under
\* output_configs/k equals the value returned.
C10_Original ==
    (last.op \in SavingOps /\ last.args.save_as # PyNone /\ Returned)
    => LET stored == LoadJson(files, "output_configs", last.args.save_as.s) IN
       stored.out = "return" /\ PyEq(stored.v, last.outcome.v)

\* C10 amended: when build_schema_from_docx or an intake operation is called
\* with a non-empty save_as = k and returns, the artifact stored under
\* output_configs/k equals the value returned.
C10_SavedEqualsReturned ==
    (last.op \in SavingOps /\ Truthy(last.args.save_as) /\ Returned)
    => LET stored == LoadJson(files, "output_configs", last.args.save_as.s) IN
       stored.out = "return" /\ PyEq(stored.v, last.outcome.v)

C10_Witness ==
    /\ last.op = "intake_plaintext_text"
    /\ last.args.save_as = PyStr("k1")
    /\ Returned
    /\ last.outcome.v.t = "dict"
    /\ Path("output_configs", "k1") \in last.wrote

\* the run manifest as load_json gives it back
StoredManifest == LoadJson(files, "output_configs", "run_manifest")

\* C11: a call of build_schema_from_docx or of an intake operation made
\* without save_as leaves the files of the workspace as they were.
C11_NoSaveAsWritesNothing ==
    [][(/\ calls' # calls
        /\ last'.op \in SavingOps
        /\ last'.args.save_as = PyNone)
            => files' = files]_vars

C11_Witness ==
    /\ last.op = "build_schema_from_docx"
    /\ last.args.save_as = PyNone
    /\ Returned
    /\ last.outcome.v = PyDict(<<Item("v", PyInt(1))>>)
    /\ Path("output_configs", "k1") \in DOMAIN files

\* C12: the manifest saved by a run_schema(schema, plaintext, dest_name) that
\* returns records docx_url equal to the value returned, status 'success',
\* dest_name equal to the argument and plaintext_length equal to the length
\* of the plaintext argument, and has a timestamp and a schema_hash.
C12_ManifestRecordsTheRun ==
    (last.op = "run_schema" /\ Returned /\ ManifestPath \in last.wrote)
    => /\ StoredManifest.out = "return"
       /\ StoredManifest.v.t = "dict"
       /\ DictGet(StoredManifest.v, "docx_url") = last.outcome.v
       /\ DictGet(StoredManifest.v, "status") = PyStr("success")
       /\ DictGet(StoredManifest.v, "dest_name") = PyStr(last.args.dest_name)
       /\ DictGet(StoredManifest.v, "plaintext_length") = PyInt(Len(last.args.plaintext))
       /\ {"timestamp", "schema_hash"} \subseteq DictKeys(StoredManifest.v)

C12_Witness ==
    /\ last.op = "run_schema"
    /\ Returned
    /\ ManifestPath \in last.wrote
    /\ last.args.dest_name = "out.docx"
    /\ last.args.plaintext = "hi"
    /\ DictGet(StoredManifest.v, "plaintext_length") = PyInt(2)

\* the 2xx response of the last call is an object whose status is not 'success'
StatusNotSuccess ==
    /\ Got2xx
    /\ Loads(last.net.text).ok
    /\ Loads(last.net.text).v.t = "dict"
    /\ DictGet(Loads(last.net.text).v, "status") # PyStr("success")

\* C13: run_schema ends with a plain ForgeClientError ('Schema run failed')
\* whenever a 2xx response carries a status other than 'success', with or
\* without a docx_url in the response: the status is checked before the
\* docx_url.
C13_FailedStatusIsClientError ==
    (last.op = "run_schema" /\ StatusNotSuccess)
    => /\ RaisedClass("ForgeClientError")
       /\ last.outcome.msg = "Schema run failed"

C13_Witness ==
    /\ last.op = "run_schema"
    /\ last.net = Response(200, BodyRunFailedNoUrl)
    /\ RaisedClass("ForgeClientError")
    /\ last.outcome.msg = "Schema run failed"

C15_BadPathFailsBeforeRequest ==
    [][(/\ calls' # calls
        /\ last'.op = "intake_plaintext_file"
        /\ last'.args.path_state \in {"missing", "directory"})
            => /\ last'.outcome.out = "raise"
               /\ last'.outcome.cls = "ForgeClientError"
               /\ requests' = requests
               /\ files' = files]_vars

C15_Witness ==
    /\ last.op = "intake_plaintext_file"
    /\ last.args.path_state = "directory"
    /\ last.args.save_as = PyStr("k1")
    /\ RaisedClass("ForgeClientError")
    /\ last.issued = 0
    /\ requests = 1

\* C16: a client operation hands at most one request to the transport per
\* call and never sends it again: a call that returns, or that fails with an
\* I/O or HTTP error, has issued exactly one request, so that n such calls
\* issue n requests; the workspace calls issue none.
C16_OneRequestPerCall ==
    [][calls' # calls =>
        IF last'.op \in ClientOps
        THEN /\ requests' \in {requests, requests + 1}
             /\ (\/ last'.outcome.out = "return"
                 \/ last'.outcome.cls \in {"ForgeClientIOError", "ForgeClientHTTPError"})
                    => requests' = requests + 1
        ELSE requests' = requests]_vars

C16_Witness ==
    /\ calls = 2
    /\ requests = 2
    /\ last.op = "run_schema"
    /\ RaisedClass("ForgeClientIOError")

\* C17: the file handle intake_plaintext_file opens for the upload is closed
\* on every way out of the call: return, I/O error, HTTP error, plain error
\* from the response and OSError while the file is read.
C17_UploadHandleClosed ==
    /\ open_handles = 0
    /\ last.op = "intake_plaintext_file" => last.closed = last.opened

C17_Witness ==
    /\ last.op = "intake_plaintext_file"
    /\ last.net = TransportRaises("OSError")
    /\ RaisedClass("ForgeClientError")
    /\ last.opened = 1
    /\ last.closed = 1

\* u is x without the slashes at its end
IsRStripOf(u, x) ==
    \E n \in 0..Len(x) :
        /\ u = SubSeq(x, 1, n)
        /\ \A i \in (n + 1)..Len(x) : x[i] = "/"
        /\ n = 0 \/ x[n] # "/"

C19_DirectoriesExistUntilDeleted ==
    [][/\ (calls' # calls /\ last'.op = "create_workspace")
            => (ws'.exists /\ DirNames \subseteq ws'.dirs)
       /\ (DirNames \subseteq ws.dirs /\ last'.op # "delete_workspace")
            => DirNames \subseteq ws'.dirs]_vars

C19_Witness ==
    /\ last.op = "intake_plaintext_file"
    /\ Returned
    /\ Path("output_configs", "k1") \in last.wrote
    /\ ws.exists
    /\ ws.dirs = {"output_configs", "output_docx", "input_docx", "input_unzipped"}

\* C20: a workspace created with use_uuid=False has the run id 'default',
\* one created with use_uuid=True has a run id timestamp_token that is not
\* 'default'; in both cases the root of the workspace is
\* <base_root>/<run-id> and save_json(dir, key, v) returns the path
\* <base_root>/<run-id>/<dir>/<key>.json.
C20_RunIdAndLayout ==
    ws.exists =>
        /\ ~ws.use_uuid => ws.run_id = "default"
        /\ ws.use_uuid =>
                /\ ws.run_id # "default"
                /\ \E now \in 0..calls, token \in Tokens :
                        ws.run_id = Stamp(now) \o "_" \o token
        /\ ws.root_dir = ws.base_root \o "/" \o ws.run_id
        /\ (last.op = "save_json" /\ Returned)
                => last.outcome.v =
                        PyStr(ws.base_root \o "/" \o ws.run_id \o "/" \o last.args.dir
                              \o "/" \o last.args.key \o ".json")

C20_Witness ==
    /\ last.op = "save_json"
    /\ Returned
    /\ ws.use_uuid
    /\ last.outcome.v = PyStr("/tmp/ws/20250101T000000_1a2b3c4d/output_configs/k1.json")

\* C21: delete_workspace is idempotent: every call of it returns and leaves
\* no workspace on disk, and a call made when the root of the run is already
\* gone (a second call in a row, for one) leaves the state as it found it.
C21_DeleteIsIdempotent ==
    [][(calls' # calls /\ last'.op = "delete_workspace")
        => /\ last'.outcome.out = "return"
           /\ ~ws'.exists
           /\ ws'.dirs = {}
           /\ files' = <<>>
           /\ ~ws.exists => (ws' = ws /\ files' = files)]_vars

C21_Witness ==
    /\ calls = 2
    /\ last.op = "delete_workspace"
    /\ last.args.path_state = "missing"
    /\ Returned
    /\ ws.run_id = "20250101T000000_1a2b3c4d"
    /\ ~ws.exists

\* the 2xx response of the last call is an object without 'compressed_schema'
LacksCompressedSchema ==
    /\ last.net.kind = "response"
    /\ last.net.status_code \in 200..299
    /\ Loads(last.net.text).ok
    /\ Loads(last.net.text).v.t = "dict"
    /\ "compressed_schema" \notin DictKeys(Loads(last.net.text).v)

C23_StatusCheckedBeforeParse ==
    \A body \in {BodyEmpty, BodyNotJson, BodyRunOk} :
        (GotNon2xx /\ last.net.text = body)
        => /\ last.outcome.out = "raise"
           /\ last.outcome.cls = "ForgeClientHTTPError"
           /\ last.outcome.msg # "Invalid JSON response"
           /\ last.outcome.response_body = body

C23_Witness ==
    /\ last.op = "build_schema_from_docx"
    /\ last.net = Response(300, BodyEmpty)
    /\ ~Loads(last.net.text).ok
    /\ RaisedClass("ForgeClientHTTPError")
    /\ calls = 2

\* C24: in a sequence of run_schema calls on one workspace, a call that
\* returns with its manifest saved leaves its own manifest stored, and every
\* other call (one that fails, one whose save fails) leaves the files as they
\* were: the stored manifest is always that of the most recent call that
\* succeeded and saved.
C24_ManifestOfLatestSavedRun ==
    [][(calls' # calls /\ last'.op = "run_schema")
        => IF last'.outcome.out = "return" /\ ~last'.save_failed
           THEN LET m == LoadJson(files', "output_configs", "run_manifest") IN
                /\ m.out = "return"
                /\ DictGet(m.v, "timestamp") = PyStr(IsoFormat(calls))
                /\ DictGet(m.v, "schema_hash") = PyStr(SchemaHash(last'.args.schema))
                /\ DictGet(m.v, "dest_name") = PyStr(last'.args.dest_name)
                /\ DictGet(m.v, "docx_url") = last'.outcome.v
           ELSE files' = files]_vars

C24_Witness ==
    /\ calls = 2
    /\ last.op = "run_schema"
    /\ Returned
    /\ last.save_failed
    /\ StoredManifest.out = "return"
    /\ DictGet(StoredManifest.v, "timestamp") = PyStr(IsoFormat(0))
    /\ DictGet(StoredManifest.v, "dest_name") # PyStr(last.args.dest_name)

\* the last call ended with one of the errors of the exchange: an I/O error,
\* an HTTP error, the invalid-JSON error or the missing-'schema' error
ExchangeError(outcome) ==
    /\ outcome.out = "raise"
    /\ \/ outcome.cls \in {"ForgeClientIOError", "ForgeClientHTTPError"}
       \/ /\ outcome.cls = "ForgeClientError"
          /\ outcome.msg \in {"Invalid JSON response", "Missing 'schema' in API response"}

\* C25: a build_schema_from_docx, intake_plaintext_text or
\* intake_plaintext_file call that ends with an I/O error, an HTTP error, an
\* invalid-JSON error or a missing-'schema' error leaves the files of the
\* workspace as they were, with or without save_as.
C25_ExchangeErrorWritesNothing ==
    [][(calls' # calls /\ last'.op \in SavingOps /\ ExchangeError(last'.outcome))
            => (files' = files /\ ~last'.save_attempted)]_vars

C25_Witness ==
    /\ last.op = "build_schema_from_docx"
    /\ last.args.save_as = PyStr("k1")
    /\ last.net = Response(200, BodySchemaEmpty)
    /\ RaisedClass("ForgeClientError")
    /\ last.outcome.msg = "Missing 'schema' in API response"
    /\ files = <<>>

\* C26: the schema_hash of the manifest depends on the content of the schema
\* alone: it is the hash of every schema equal to the one passed as a
\* mapping, whatever the order its keys were inserted in, and it is 16
\* hexadecimal characters long.
C26_SchemaHashOfContent ==
    (last.op = "run_schema" /\ ManifestPath \in last.wrote)
    => LET h == DictGet(StoredManifest.v, "schema_hash")
           digits == Take16(Sha256HexDigest(Dumps(SortKeys(last.args.schema))))
       IN  /\ \A schema \in Schemas :
                PyEq(schema, last.args.schema) => h = PyStr(SchemaHash(schema))
           /\ h.t = "str"
           /\ Len(h.s) = 16
           /\ h.s = JoinChars(digits)
           /\ \A i \in 1..Len(digits) :
                digits[i] \in {"0", "1", "2", "3", "4", "5", "6", "7",
                               "8", "9", "a", "b", "c", "d", "e", "f"}

C26_Witness ==
    /\ calls = 2
    /\ last.op = "run_schema"
    /\ ManifestPath \in last.wrote
    /\ last.args.schema = PyDict(<<Item("b", PyInt(1)), Item("a", PyInt(2))>>)
    /\ DictGet(StoredManifest.v, "schema_hash") =
            PyStr(SchemaHash(PyDict(<<Item("a", PyInt(2)), Item("b", PyInt(1))>>)))

\* the object a 2xx response of the last call carried and the value it has
\* under a name (None when the name is absent)
ResponseObject == Loads(last.net.text).v
GotObject == Got2xx /\ Loads(last.net.text).ok /\ Loads(last.net.text).v.t = "dict"

\* C27: build_schema_from_docx never returns a falsy schema: a 2xx response
\* whose 'schema' is absent or present and empty (empty mapping, null, empty
\* list) ends the call with the 'Missing 'schema'' ForgeClientError; in the
\* same way run_schema never returns a falsy docx_url and treats an empty
\* docx_url of a successful run as missing.
C27_EmptyFieldIsMissing ==
    /\ (last.op = "build_schema_from_docx" /\ Returned) => Truthy(last.outcome.v)
    /\ (last.op = "build_schema_from_docx" /\ GotObject
            /\ ~Truthy(DictGet(ResponseObject, "schema")))
        => /\ RaisedClass("ForgeClientError")
           /\ last.outcome.msg = "Missing 'schema' in API response"
    /\ (last.op = "run_schema" /\ Returned) => Truthy(last.outcome.v)
    /\ (last.op = "run_schema" /\ GotObject
            /\ DictGet(ResponseObject, "status") = PyStr("success")
            /\ ~Truthy(DictGet(ResponseObject, "docx_url")))
        => /\ RaisedClass("ForgeClientError")
           /\ last.outcome.msg = "Missing 'docx_url' in API response"

C27_Witness ==
    /\ last.op = "build_schema_from_docx"
    /\ last.net = Response(200, BodySchemaEmptyList)
    /\ "schema" \in DictKeys(ResponseObject)
    /\ RaisedClass("ForgeClientError")
    /\ last.outcome.msg = "Missing 'schema' in API response"

\* the availability the factory acts on, and an engine made of an adapter
SdkAvailable == HAS_SDK(engine.env)
Produced(cls) ==
    /\ Returned
    /\ last.outcome.v = GlyphEngine(Adapter(cls))
    /\ engine.adapter = cls

\* C28: EngineFactory.create selects the adapter by mode and by whether the
\* SDK is available: mode "client" always yields the client adapter; mode
\* "local" yields the local adapter when the SDK is available and raises
\* ImportError otherwise; any other mode yields the local adapter iff the SDK
\* is available and the client adapter otherwise; and no LocalEngineAdapter
\* exists while the SDK is unavailable, by the factory or by its constructor.
C28_AdapterByModeAndSdk ==
    /\ last.op = "EngineFactory.create" =>
        /\ last.args.mode = "client" => Produced("ClientEngineAdapter")
        /\ (last.args.mode = "local" /\ SdkAvailable) => Produced("LocalEngineAdapter")
        /\ (last.args.mode = "local" /\ ~SdkAvailable) => RaisedClass("ImportError")
        /\ (last.args.mode \notin {"client", "local"} /\ SdkAvailable)
            => Produced("LocalEngineAdapter")
        /\ (last.args.mode \notin {"client", "local"} /\ ~SdkAvailable)
            => Produced("ClientEngineAdapter")
    /\ (last.op = "LocalEngineAdapter" /\ ~SdkAvailable) => RaisedClass("ImportError")
    /\ engine.adapter = "LocalEngineAdapter" => SdkAvailable

C28_Witness ==
    /\ last.op = "EngineFactory.create"
    /\ last.args.mode = "auto"
    /\ ~SdkAvailable
    /\ Produced("ClientEngineAdapter")
    /\ calls = 2

LocalOps == {"LocalEngineAdapter.build_schema", "LocalEngineAdapter.run_schema"}
\* the keys under which the last call stored a file it opened
OpenedKeys ==
    LET o == OpenUploads(<<>>, last.args.docx_path, last.args.plaintext_path)
    IN  {o.table[i].key : i \in DOMAIN o.table}

\* C29: in LocalEngineAdapter.build_schema and run_schema every file handle
\* the call opened is closed when the call exits, whether it returns, the
\* request fails, the status is an error or the second open fails after the
\* first; and the "schema" bytes entry of run_schema is never closed as a
\* handle.
C29_EveryOpenedHandleClosed ==
    last.op \in LocalOps =>
        /\ last.closed = last.opened
        /\ last.closed_keys = OpenedKeys
        /\ "schema" \notin last.closed_keys
        /\ open_handles = 0

C29_Witness ==
    /\ last.op = "LocalEngineAdapter.build_schema"
    /\ last.args.docx_path = "file"
    /\ last.args.plaintext_path = "missing"
    /\ RaisedClass("FileNotFoundError")
    /\ last.opened = 1
    /\ last.closed_keys = {"docx"}

\* C30: in LocalEngineAdapter.build_schema and run_schema a request error of
\* the transport is raised as EngineIOError, a non-2xx status is raised as
\* the transport's HTTPStatusError, untranslated, and EngineIOError is raised
\* for nothing but a request error.
C30_RequestErrorTranslatedStatusErrorNot ==
    last.op \in LocalOps =>
        /\ (last.net.kind = "raise" /\ IsInstance(last.net.exc, "RequestError"))
            => /\ RaisedClass("EngineIOError")
               /\ last.outcome.original_error = last.net.exc
        /\ (last.net.kind = "response" /\ last.net.status_code \notin 200..299)
            => /\ RaisedClass("HTTPStatusError")
               /\ last.outcome.status_code = last.net.status_code
        /\ RaisedClass("EngineIOError")
            => (last.net.kind = "raise" /\ IsInstance(last.net.exc, "RequestError"))

C30_Witness ==
    /\ last.op = "LocalEngineAdapter.run_schema"
    /\ last.net = Response(500, BodyEmpty)
    /\ RaisedClass("HTTPStatusError")
    /\ last.outcome.status_code = 500
====
